---- MODULE Spec2Model ----
(***************************************************************************)
(* Posts-Analyzer-API: the record store of posts and analysis rows         *)
(* (src/db/crud/posts.py), the analyzer service                            *)
(* (src/services/posts_analyzer.py) and the two analysis endpoints         *)
(* (src/api/v1/endpoints/posts.py).                                        *)
(*                                                                         *)
(* The specifications share the variables:                                 *)
(*   Spec        the store API and get_post_analysis_result, one call at   *)
(*               a time, with a wall clock that may or may not advance     *)
(*               between two calls;                                        *)
(*   SpecBatch   one POST /analyze request: validation, filtered query,    *)
(*               one task per post behind the semaphore, gather;           *)
(*   SpecBatchFair  SpecBatch under the event loop's scheduling, for the   *)
(*               termination of the request;                               *)
(*   SpecFilter  get_filtered_posts as its two queries (count, page) with  *)
(*               other requests creating and deleting posts in between;    *)
(*   SpecPages   two get_filtered_posts calls, one after the other, on a   *)
(*               store nothing writes to;                                  *)
(*   SpecCategories  category create / update / delete requests, two of    *)
(*               them interleaved at their awaits;                         *)
(*   SpecPosts   post create / update requests interleaved with each       *)
(*               other and with category deletes;                          *)
(*   SpecSearch  get_filtered_posts with the ILIKE search on stores with   *)
(*               varied texts;                                             *)
(*   SpecListing two GET /posts requests and their paginated responses;    *)
(*   SpecWords   _analyze_word_frequency applied to a text;                *)
(*   SpecRevise  get_post_analysis_result around updates of the post;      *)
(*   SpecRepeat  get_post_analysis_result repeated on a store with rows.   *)
(***************************************************************************)
EXTENDS Integers, Sequences, FiniteSets, Bags, TLC

\* ---------------------------------------------------------------- bounds
NumPosts == 2        \* post ids are 1..NumPosts
NumCategories == 2   \* category ids are 1..NumCategories
MaxClock == 1        \* readings of the wall clock are 0..MaxClock
MaxRows == 3         \* Spec stops recording at this many analysis rows
MaxWorkersBound == 2 \* max_workers is drawn from 1..MaxWorkersBound
MaxLimit == 2        \* limit is drawn from 1..MaxLimit (the code allows 1..100)
MaxOffset == 3       \* offset is drawn from 0..MaxOffset (the code allows any >= 0)
MaxWords == 22       \* a text has up to this many different words
MaxRepeat == 2       \* and up to this many further occurrences of its first word

PostIds == 1..NumPosts
CategoryIds == 1..NumCategories
Contents == {"c1", "c2"}

\* ------------------------------------------------------------- constants
\* The three analysis kinds _analyze_post dispatches on.
Kinds == {"word_frequency", "text_stats", "tags"}
\* The order in which get_post_analysis_result looks the kinds up and
\* collects the missing ones.
KindOrder == <<"word_frequency", "text_stats", "tags">>
\* Kind names a caller may send: the three kinds and an unknown one.
KindNames == Kinds \cup {"sentiment"}
\* analyze_filtered_posts: the default when analysis_types is empty or None.
DefaultAnalysisTypes == <<"word_frequency", "text_stats", "tags">>

None == "None"
\* "No row" and "field absent" (Python's None) as values of the row's and the
\* decoded payload's shape.
NoRow == [post_id |-> 0, analysis_type |-> None, result |-> <<"json", None>>,
          created_at |-> 0]
Absent == [kind |-> None, of |-> None]

VARIABLES
  categories,   \* table category: id -> [name]
  posts,        \* table post: id -> [category_id, title, content, search_vector]
  analyses,     \* table postanalysis: a bag of rows (the surrogate id left out)
  now,          \* the reading datetime.utcnow() gives at this moment
  lastRecorded, \* history: (post, kind) -> the row the latest record call wrote
  last,         \* history: the last finished call of the store API, its
                \* arguments, its outcome and the rows stored before it
  max_workers,  \* PostsAnalyzer.max_workers
  batch,        \* the POST /analyze request in progress and its outcome
  pc,           \* per post: where its process_post task is
  done_kinds,   \* per post: how many entries of the kinds list its task has recorded
  sem,          \* free slots of the asyncio.Semaphore
  fq,           \* the get_filtered_posts call in progress and its outcome
  reqs,         \* per request slot: the category or post request in progress
  wfcall        \* the _analyze_word_frequency call: its text and its result

storeVars == <<categories, posts, analyses, now, lastRecorded>>
batchVars == <<max_workers, batch, pc, done_kinds, sem>>
vars == <<categories, posts, analyses, now, lastRecorded, last, max_workers, batch, pc,
          done_kinds, sem, fq, reqs, wfcall>>

\* ------------------------------------------------------------ pure parts
RECURSIVE SumOver(_, _)
\* Sum of the function f over the finite set S.
SumOver(f, S) ==
  IF S = {} THEN 0
  ELSE LET x == CHOOSE y \in S : TRUE IN f[x] + SumOver(f, S \ {x})

\* Rows of bag b for the pair (p, k), as a set of distinct rows.
RowsOf(b, p, k) ==
  {r \in BagToSet(b) : r.post_id = p /\ r.analysis_type = k}

\* Number of rows of bag b for the pair (p, k), copies counted.
RowCount(b, p, k) ==
  SumOver([r \in RowsOf(b, p, k) |-> CopiesIn(r, b)], RowsOf(b, p, k))

\* Number of rows of bag b for post p.
PostRowCount(b, p) ==
  LET S == {r \in BagToSet(b) : r.post_id = p}
  IN SumOver([r \in S |-> CopiesIn(r, b)], S)

\* json.dumps / json.loads of an analysis result: the stored payload is the
\* encoded text, not the dict.
JsonDumps(x) == <<"json", x>>
JsonLoads(s) == s[2]

\* The dict one of _analyze_word_frequency, _analyze_text_stats and
\* _extract_tags returns for a text: a function of the kind and the text.
AnalysisResult(kind, content) == [kind |-> kind, of |-> content]

\* The lexemes to_tsvector / plainto_tsquery ("russian") derive from a text;
\* the texts of the model are single words, an empty or missing text has none.
Lexemes(text) == IF text \in {None, ""} THEN {} ELSE {<<"lex", text>>}

\* to_tsvector("russian", coalesce(title, "") + " " + content).
ToTsvector(title, content) ==
  Lexemes(IF title = None THEN "" ELSE title) \cup Lexemes(content)

\* A row of table post as create_post leaves it: Post(**post_in.model_dump())
\* and the search vector computed from its title and content.
NewPost(cat, title, content) ==
  [category_id |-> cat, title |-> title, content |-> content,
   search_vector |-> ToTsvector(title, content)]

\* PostAnalysis(**analysis_in.model_dump()), created_at from the clock.
NewRow(p, kind, payload, t) ==
  [post_id |-> p, analysis_type |-> kind, result |-> payload, created_at |-> t]

\* PostAnalysisCreate carries analysis_type as a plain str: every name passes.
PostAnalysisCreateAccepts(kind) == TRUE

\* Mutant of AddRow: the row replaces the rows its (post, kind) pair has.
AddRow_Upsert(b, row) ==
  [r \in {x \in BagToSet(b) : x.post_id # row.post_id
                                 \/ x.analysis_type # row.analysis_type}
     |-> CopiesIn(r, b)] (+) SetToBag({row})

\* create_post_analysis: db.add(analysis) and commit, an INSERT of one row.
AddRow(b, row) == b (+) SetToBag({row})

\* Mutant of LatestRows: the order is ascending, the oldest row comes first.
LatestRows_Oldest(b, p, k) ==
  {r \in RowsOf(b, p, k) :
     \A q \in RowsOf(b, p, k) : q.created_at >= r.created_at}

\* get_latest_post_analysis: ORDER BY created_at DESC LIMIT 1.  Among rows
\* with the same created_at the store is free to return any one.
LatestRows(b, p, k) ==
  {r \in RowsOf(b, p, k) :
     \A q \in RowsOf(b, p, k) : q.created_at <= r.created_at}

\* The entries of a kinds list _analyze_post acts on: an unknown name is
\* logged and skipped.
KnownKinds(kinds) == SelectSeq(kinds, LAMBDA k : k \in Kinds)

\* Mutant of PersistStep: a kind that already has a row for the post is not
\* saved again (the batch path made cache-aware).
PersistStep_SkipCached(b, p, content, kind, t) ==
  IF RowsOf(b, p, kind) # {} THEN b
  ELSE b (+) SetToBag({NewRow(p, kind, <<"json", AnalysisResult(kind, content)>>, t)})

\* _analyze_post, the save of one computed kind: create_post_analysis adds a
\* row with the encoded result, whether or not the pair already has rows.
PersistStep(b, p, content, kind, t) ==
  AddRow(b, NewRow(p, kind, JsonDumps(AnalysisResult(kind, content)), t))

\* The store once _analyze_post (save_results true) has saved the first n
\* entries of kinds for post p, starting from bag b.
RECURSIVE AnalyzePostStore(_, _, _, _, _, _)
AnalyzePostStore(b, p, content, kinds, n, t) ==
  IF n = 0 THEN b
  ELSE PersistStep(AnalyzePostStore(b, p, content, kinds, n - 1, t),
                   p, content, kinds[n], t)

\* The "analyses" dict _analyze_post returns: kind -> result.
AnalyzePostResult(p, content, kinds) ==
  [post_id |-> p,
   analyses |-> [k \in {kinds[i] : i \in 1..Len(kinds)} |->
                   AnalysisResult(k, content)]]

\* Mutant of MissingKinds: the check for the third kind is left out.
MissingKinds_ForgetsTags(b, p) ==
  SelectSeq(KindOrder, LAMBDA k : k # "tags" /\ RowsOf(b, p, k) = {})

\* get_post_analysis_result, first half: the kinds with no latest row, in
\* the order they are appended to analysis_types.
MissingKinds(b, p) == SelectSeq(KindOrder, LAMBDA k : LatestRows(b, p, k) = {})

\* Mutant of KindsToRun: the missing kinds are run whatever run_if_missing is.
KindsToRun_Always(b, p, run_if_missing) == MissingKinds(b, p)

\* get_post_analysis_result: "if run_if_missing and (not ... or not ...)",
\* the kinds handed to _analyze_post; none without run_if_missing.
KindsToRun(b, p, run_if_missing) ==
  IF run_if_missing THEN MissingKinds(b, p) ELSE <<>>

\* Mutant of AssembleResult: a kind with no row gets an empty default
\* instead of being left out.
AssembleResult_Defaulted(found) ==
  LET present == {k \in Kinds : found[k] # NoRow}
      field(k) == IF found[k] = NoRow THEN [kind |-> k, of |-> None]
                  ELSE found[k].result[2]
  IN [word_frequencies |-> field("word_frequency"),
      text_stats       |-> field("text_stats"),
      extracted_tags   |-> field("tags"),
      raw_analysis     |-> [k \in present |-> found[k].result[2]]]

\* get_post_analysis_result, second half: the PostAnalysisResult assembled
\* from the rows found (found: kind -> row or None).
AssembleResult(found) ==
  LET present == {k \in Kinds : found[k] # NoRow}
      field(k) == IF found[k] = NoRow THEN Absent
                  ELSE JsonLoads(found[k].result)
  IN [word_frequencies |-> field("word_frequency"),
      text_stats       |-> field("text_stats"),
      extracted_tags   |-> field("tags"),
      raw_analysis     |-> [k \in present |-> JsonLoads(found[k].result)]]

\* get_post_analysis_result returned None, or the call returns no result.
NoResult == [word_frequencies |-> Absent, text_stats |-> Absent,
             extracted_tags |-> Absent, raw_analysis |-> <<>>]

NoCall == [op |-> "none", post_id |-> 0, run_if_missing |-> FALSE,
           status |-> "none", result |-> NoResult, written |-> <<>>]

NoFilters == [limit |-> 1, offset |-> 0, category_id |-> {}, category_name |-> {},
              search_query |-> None, use_fulltext |-> TRUE]

\* The metadata dict of analyze_filtered_posts before a call has returned.
NoMetadata == [total_posts |-> 0, processed_posts |-> 0, analysis_types |-> <<>>]

NoBatch == [phase |-> "idle", cause |-> "none", detail |-> None,
            requested |-> <<>>, kinds |-> <<>>, persist |-> FALSE,
            filters |-> NoFilters,
            queried |-> FALSE, page |-> <<>>, total |-> 0, before |-> EmptyBag,
            results |-> <<>>, metadata |-> NoMetadata, response |-> <<>>]

\* No PaginatedPostsResponse: the listing endpoint has not answered.
NoResponse == [total |-> 0, limit |-> 0, offset |-> 0, next_offset |-> {},
               prev_offset |-> {}, items |-> <<>>]

\* The (filters, page, total) of an earlier get_filtered_posts call and the
\* response built from it; taken says there was one.
NoPage == [taken |-> FALSE, filters |-> NoFilters, total |-> 0, page |-> <<>>,
           response |-> NoResponse]

NoFilter == [phase |-> "idle", filters |-> NoFilters, total |-> 0, page |-> <<>>,
             quiet |-> TRUE, prev |-> NoPage, response |-> NoResponse]

\* ------------------------------------------------------------ store API
\* The wall clock advances.  Nothing makes it advance between two calls.
Tick ==
  /\ now < MaxClock
  /\ now' = now + 1
  /\ UNCHANGED <<categories, posts, analyses, lastRecorded, last, batchVars, fq, reqs, wfcall>>

\* create_post_analysis called by a client of the store with any kind name.
\* A row whose post does not exist violates the foreign key: nothing is stored.
create_post_analysis(p, kind, payload) ==
  /\ BagCardinality(analyses) < MaxRows
  /\ IF p \in DOMAIN posts /\ PostAnalysisCreateAccepts(kind)
     THEN LET row == NewRow(p, kind, payload, now)
          IN /\ analyses' = AddRow(analyses, row)
             /\ lastRecorded' = [lastRecorded EXCEPT ![p][kind] = row]
             /\ last' = [NoCall EXCEPT !.op = "record", !.status = "ok"]
     ELSE /\ UNCHANGED <<analyses, lastRecorded>>
          /\ last' = [NoCall EXCEPT !.op = "record", !.status = "error"]
  /\ UNCHANGED <<categories, posts, now, batchVars, fq, reqs, wfcall>>

\* What get_latest_post_analysis may return from bag b: a latest row, or no row.
LatestOrNone(b, p, k) ==
  IF LatestRows(b, p, k) = {} THEN {NoRow} ELSE LatestRows(b, p, k)

\* get_post_analysis_result(post_id, run_if_missing), the whole call.  The
\* missing kinds are recorded one create_post_analysis (one commit) at a
\* time; the store may fail any of them, which ends the call with the
\* exception, the rows committed before it staying committed.
get_post_analysis_result(p, run_if_missing) ==
  /\ IF p \notin DOMAIN posts
     THEN /\ last' = [NoCall EXCEPT !.op = "get_or_compute", !.post_id = p,
                        !.run_if_missing = run_if_missing,
                        !.status = "not_found"]
          /\ UNCHANGED <<analyses, lastRecorded>>
     ELSE LET missing == KindsToRun(analyses, p, run_if_missing)
          IN /\ \/ missing = <<>>
                \/ BagCardinality(analyses) + Len(missing) <= MaxRows
             /\ \E n \in 0..Len(missing) :
                  LET after == AnalyzePostStore(analyses, p, posts[p].content,
                                                missing, n, now)
                  IN /\ analyses' = after
                     /\ lastRecorded' =
                          [lastRecorded EXCEPT ![p] = [k \in KindNames |->
                             IF \E i \in 1..n : missing[i] = k
                             THEN NewRow(p, k,
                                    JsonDumps(AnalysisResult(k, posts[p].content)),
                                    now)
                             ELSE lastRecorded[p][k]]]
                     /\ IF n < Len(missing)
                        THEN last' = [NoCall EXCEPT !.op = "get_or_compute",
                                        !.post_id = p,
                                        !.run_if_missing = run_if_missing,
                                        !.status = "error",
                                        !.written = SubSeq(missing, 1, n)]
                        ELSE \E wf \in LatestOrNone(after, p, "word_frequency"),
                                ts \in LatestOrNone(after, p, "text_stats"),
                                tg \in LatestOrNone(after, p, "tags") :
                               last' = [NoCall EXCEPT !.op = "get_or_compute",
                                          !.post_id = p,
                                          !.run_if_missing = run_if_missing,
                                          !.status = "ok",
                                          !.result = AssembleResult(
                                             [word_frequency |-> wf,
                                              text_stats |-> ts, tags |-> tg]),
                                          !.written = missing]
  /\ UNCHANGED <<categories, posts, now, batchVars, fq, reqs, wfcall>>

\* ------------------------------------------------- filtered retrieval
\* PostFilterParams as the model draws them; category_id is {} for None.
FilterParams ==
  [limit : 1..MaxLimit, offset : 0..MaxOffset,
   category_id : {{}} \cup {{c} : c \in CategoryIds},
   category_name : {{}}, search_query : {None}, use_fulltext : {TRUE}]

\* "if filters.search_query": None and the empty string are no search filter.
SearchActive(f) == f.search_query \notin {None, ""}

\* The characters of the texts the model uses (TLC strings cannot be taken
\* apart).
Chars(text) ==
  CASE text = "" -> <<>>
    [] text = "c1" -> <<"c", "1">>
    [] text = "c2" -> <<"c", "2">>
    [] text = "t1" -> <<"t", "1">>
    [] text = "C1" -> <<"C", "1">>
    [] text = "T1" -> <<"T", "1">>
    [] text = "c_" -> <<"c", "_">>
    [] text = "1" -> <<"1">>
    [] text = "%" -> <<"%">>

\* ILIKE compares without regard to case.
LowerChar(ch) ==
  CASE ch = "C" -> "c" [] ch = "T" -> "t" [] OTHER -> ch

Lower(chars) == [i \in 1..Len(chars) |-> LowerChar(chars[i])]

\* PostgreSQL's LIKE on character sequences: % in the pattern stands for any
\* run of characters, _ for any one character, every other character for
\* itself (the model's texts hold no backslash, the escape character).
RECURSIVE LikeMatch(_, _)
LikeMatch(chars, pattern) ==
  IF pattern = <<>> THEN chars = <<>>
  ELSE IF Head(pattern) = "%"
  THEN \/ LikeMatch(chars, Tail(pattern))
       \/ chars # <<>> /\ LikeMatch(Tail(chars), pattern)
  ELSE /\ chars # <<>>
       /\ Head(pattern) = "_" \/ Head(pattern) = Head(chars)
       /\ LikeMatch(Tail(chars), Tail(pattern))

\* Post.content.ilike(f"%{q}%"): q goes into the pattern as it is; a NULL text
\* matches nothing.
ILike(text, q) ==
  /\ text # None
  /\ LikeMatch(Lower(Chars(text)), <<"%">> \o Lower(Chars(q)) \o <<"%">>)

\* Mutant of Matches: the two category conditions are alternatives.
Matches_EitherCategory(post, f) ==
  /\ \/ f.category_id = {} /\ f.category_name = {}
     \/ \E c \in f.category_id : post.category_id = c
     \/ \E n \in f.category_name :
          /\ post.category_id \in DOMAIN categories
          /\ categories[post.category_id].name = n
  /\ SearchActive(f) =>
       IF f.use_fulltext
       THEN Lexemes(f.search_query) \subseteq post.search_vector
       ELSE ILike(post.content, f.search_query) \/ ILike(post.title, f.search_query)

\* _apply_post_filters: the conjunction of the active conditions on one post;
\* category_name joins the post to its category.
Matches(post, f) ==
  /\ \A c \in f.category_id : post.category_id = c
  /\ \A n \in f.category_name :
       /\ post.category_id \in DOMAIN categories
       /\ categories[post.category_id].name = n
  /\ SearchActive(f) =>
       IF f.use_fulltext
       THEN Lexemes(f.search_query) \subseteq post.search_vector
       ELSE ILike(post.content, f.search_query) \/ ILike(post.title, f.search_query)

\* The ids of the posts a filtered query selects from the table ps.
FilteredIds(ps, f) == {p \in DOMAIN ps : Matches(ps[p], f)}

\* Mutant of get_posts_count: the count is taken of the paginated query.
get_posts_count_Paginated(ps, f) ==
  LET n == Cardinality(FilteredIds(ps, f))
  IN IF n <= f.offset THEN 0
     ELSE IF n - f.offset <= f.limit THEN n - f.offset ELSE f.limit

\* get_posts_count: select count(Post.id) under the filters.
get_posts_count(ps, f) == Cardinality(FilteredIds(ps, f))

\* The orders in which a query with no ORDER BY may return the rows S.
Orderings(S) ==
  {o \in [1..Cardinality(S) -> S] : \A i, j \in DOMAIN o : i # j => o[i] # o[j]}

Min(a, b) == IF a <= b THEN a ELSE b

\* Mutant of PageSlice: the window runs one row too far.
PageSlice_OneTooMany(order, offset, limit) ==
  IF offset >= Len(order) THEN <<>>
  ELSE SubSeq(order, offset + 1, Min(Len(order), offset + limit + 1))

\* query.offset(offset).limit(limit) applied to the rows in the order the
\* store returns them.
PageSlice(order, offset, limit) ==
  IF offset >= Len(order) THEN <<>>
  ELSE SubSeq(order, offset + 1, Min(Len(order), offset + limit))

\* The pages the page query of get_filtered_posts may return.
PageResults(ps, f) ==
  {PageSlice(o, f.offset, f.limit) : o \in Orderings(FilteredIds(ps, f))}

\* A write of another request lands before the get_filtered_posts call or
\* between its two queries (what happens after its return is left out).
Disturbed == IF fq.phase = "counted" THEN [fq EXCEPT !.quiet = FALSE] ELSE fq

\* get_filtered_posts, first query: total = await get_posts_count(db, filters).
get_filtered_posts_count(f) ==
  /\ fq.phase = "idle"
  /\ fq' = [fq EXCEPT !.phase = "counted", !.filters = f,
                       !.total = get_posts_count(posts, f)]
  /\ UNCHANGED <<storeVars, last, batchVars, reqs, wfcall>>

\* get_filtered_posts, second query: the page, and the return of (posts, total).
get_filtered_posts_page ==
  /\ fq.phase = "counted"
  /\ \E page \in PageResults(posts, fq.filters) :
       fq' = [fq EXCEPT !.phase = "done", !.page = page]
  /\ UNCHANGED <<storeVars, last, batchVars, reqs, wfcall>>

\* Filters with the predicates of f and any pagination.
Repaginated(f) ==
  {[f EXCEPT !.limit = l, !.offset = o] : l \in 1..MaxLimit, o \in 0..MaxOffset}

\* A second get_filtered_posts call once the first has returned: the same
\* predicates with any pagination, first query.
get_filtered_posts_again(f) ==
  /\ fq.phase = "done"
  /\ ~fq.prev.taken
  /\ f \in Repaginated(fq.filters)
  /\ fq' = [fq EXCEPT !.phase = "counted", !.filters = f,
                       !.total = get_posts_count(posts, f), !.page = <<>>,
                       !.response = NoResponse,
                       !.prev = [taken |-> TRUE, filters |-> fq.filters,
                                 total |-> fq.total, page |-> fq.page,
                                 response |-> fq.response]]
  /\ UNCHANGED <<storeVars, last, batchVars, reqs, wfcall>>

\* Mutant of NextOffset: the next page is offered whatever the total is.
NextOffset_Always(total, limit, offset) == {offset + limit}

\* get_posts_endpoint: next_offset, {} standing for None.
NextOffset(total, limit, offset) ==
  IF offset + limit < total THEN {offset + limit} ELSE {}

\* get_posts_endpoint: prev_offset, {} standing for None.
PrevOffset(limit, offset) == IF offset > 0 THEN {offset - limit} ELSE {}

\* The PaginatedPostsResponse get_posts_endpoint returns.
PaginatedPostsResponse(total, limit, offset, items) ==
  [total |-> total, limit |-> limit, offset |-> offset,
   next_offset |-> NextOffset(total, limit, offset),
   prev_offset |-> PrevOffset(limit, offset), items |-> items]

\* get_posts_endpoint from the second query of get_filtered_posts on (the
\* first is get_filtered_posts_count, or get_filtered_posts_again for a later
\* request): the page, the two offsets and the response.
get_posts_endpoint_respond ==
  /\ fq.phase = "counted"
  /\ \E page \in PageResults(posts, fq.filters) :
       fq' = [fq EXCEPT !.phase = "done", !.page = page,
                !.response = PaginatedPostsResponse(fq.total, fq.filters.limit,
                                                    fq.filters.offset, page)]
  /\ UNCHANGED <<storeVars, last, batchVars, reqs, wfcall>>

\* create_post behind create_post_endpoint (the category must exist); the id
\* is one the table does not hold.
create_post(p, cat, content) ==
  /\ fq.phase # "done"
  /\ p \notin DOMAIN posts
  /\ cat \in DOMAIN categories
  /\ posts' = [q \in DOMAIN posts \cup {p} |->
                 IF q = p THEN NewPost(cat, None, content)
                 ELSE posts[q]]
  /\ fq' = Disturbed
  /\ UNCHANGED <<categories, analyses, now, lastRecorded, last, batchVars, reqs, wfcall>>

\* The analysis rows left once the rows of post p are deleted with it.
WithoutPost(b, p) ==
  [r \in {x \in BagToSet(b) : x.post_id # p} |-> CopiesIn(r, b)]

\* delete_post: the post goes, and its analyses with it (cascade).
delete_post(p) ==
  /\ fq.phase # "done"
  /\ p \in DOMAIN posts
  /\ posts' = [q \in DOMAIN posts \ {p} |-> posts[q]]
  /\ analyses' = WithoutPost(analyses, p)
  /\ lastRecorded' = [lastRecorded EXCEPT ![p] = [k \in KindNames |-> NoRow]]
  /\ fq' = Disturbed
  /\ UNCHANGED <<categories, now, last, batchVars, reqs, wfcall>>

\* ------------------------------------------- category and post requests
\* Requests in progress at the same time, each with its own session (get_db).
Slots == {1, 2}

\* A request slot nothing runs in.  A request's optional fields are {} when
\* unset and {v} when set; seen_title and seen_content are the attributes of
\* the Post instance the request's session loaded; category_seen and wrote
\* are history: whether the category the request names existed when the
\* endpoint looked it up, and whether the request changed the store.
NoRequest == [op |-> "none", phase |-> "free", status |-> "none", target |-> 0,
              name |-> {}, category_id |-> {}, title |-> {}, content |-> {},
              seen_title |-> None, seen_content |-> None,
              category_seen |-> FALSE, wrote |-> FALSE]

\* The ids the sequences of tables category and post give the row a request
\* in slot s inserts: past every id in use, never given twice.
NewCategoryId(s) == NumCategories + s
NewPostId(s) == NumPosts + s

\* The value of an optional field that is set.
TheOne(S) == CHOOSE x \in S : TRUE

\* Mutant of CategoryFound: the lookup never reports a missing category.
CategoryFound_Unchecked(cats, c) == TRUE

\* get_category(db, category_id) is not None.
CategoryFound(cats, c) == c \in DOMAIN cats

\* get_category_by_name(db, name) is not None.
NameTaken(cats, name) == \E c \in DOMAIN cats : cats[c].name = name

\* The unique constraint on category.name refuses a row c with this name.
UniqueViolation(cats, c, name) ==
  \E d \in DOMAIN cats : d # c /\ cats[d].name = name

\* Mutant of WithoutCategory: the delete does not cascade to the posts.
WithoutCategory_KeepsPosts(ps, c) == ps

\* The posts left once category c is deleted: its posts go with it.
WithoutCategory(ps, c) ==
  [p \in {q \in DOMAIN ps : ps[q].category_id # c} |-> ps[p]]

\* The analysis rows of bag b whose post is one of ids.
RowsOfPosts(b, ids) ==
  [r \in {x \in BagToSet(b) : x.post_id \in ids} |-> CopiesIn(r, b)]

\* The responses of a finished request.
Answer(r, status, wrote) ==
  [r EXCEPT !.phase = "done", !.status = status, !.wrote = wrote]

\* create_category_endpoint up to its second await: the lookup by name, and
\* the 400 when a category of that name exists.
create_category_endpoint_check(s, name) ==
  /\ reqs[s].phase = "free"
  /\ LET r == [NoRequest EXCEPT !.op = "create_category", !.name = {name}]
     IN reqs' = [reqs EXCEPT ![s] =
                   IF NameTaken(categories, name) THEN Answer(r, "400", FALSE)
                   ELSE [r EXCEPT !.phase = "checked"]]
  /\ UNCHANGED <<storeVars, last, batchVars, fq, wfcall>>

\* create_category_endpoint, the rest: create_category adds and commits the
\* row; the unique index on name refuses a duplicate (IntegrityError, which
\* nothing catches: a 500).
create_category_endpoint_write(s) ==
  /\ reqs[s].phase = "checked" /\ reqs[s].op = "create_category"
  /\ LET name == TheOne(reqs[s].name)
         c == NewCategoryId(s)
     IN IF UniqueViolation(categories, c, name)
        THEN /\ reqs' = [reqs EXCEPT ![s] = Answer(@, "500", FALSE)]
             /\ UNCHANGED categories
        ELSE /\ reqs' = [reqs EXCEPT ![s] = Answer([@ EXCEPT !.target = c],
                                                   "201", TRUE)]
             /\ categories' = [d \in DOMAIN categories \cup {c} |->
                                 IF d = c THEN [name |-> name]
                                 ELSE categories[d]]
  /\ UNCHANGED <<posts, analyses, now, lastRecorded, last, batchVars, fq, wfcall>>

\* update_category_endpoint up to update_category: the get_category_by_id
\* dependency (404), and the lookup by name when a new, different name is
\* given (400).
update_category_endpoint_check(s, c, name) ==
  /\ reqs[s].phase = "free"
  /\ LET r == [NoRequest EXCEPT !.op = "update_category", !.target = c,
                                !.name = name]
     IN reqs' = [reqs EXCEPT ![s] =
                   IF ~CategoryFound(categories, c) THEN Answer(r, "404", FALSE)
                   ELSE IF \E n \in name : /\ n # "" /\ n # categories[c].name
                                           /\ NameTaken(categories, n)
                        THEN Answer(r, "400", FALSE)
                        ELSE [r EXCEPT !.phase = "checked"]]
  /\ UNCHANGED <<storeVars, last, batchVars, fq, wfcall>>

\* update_category_endpoint, the rest: update_category reads the row again
\* (None: 404), sets the fields given and commits; the unique index refuses a
\* name another row holds.
update_category_endpoint_write(s) ==
  /\ reqs[s].phase = "checked" /\ reqs[s].op = "update_category"
  /\ LET c == reqs[s].target
         name == reqs[s].name
     IN IF ~CategoryFound(categories, c)
        THEN /\ reqs' = [reqs EXCEPT ![s] = Answer(@, "404", FALSE)]
             /\ UNCHANGED categories
        ELSE IF \E n \in name : UniqueViolation(categories, c, n)
        THEN /\ reqs' = [reqs EXCEPT ![s] = Answer(@, "500", FALSE)]
             /\ UNCHANGED categories
        ELSE /\ reqs' = [reqs EXCEPT ![s] = Answer(@, "200", TRUE)]
             /\ categories' = [categories EXCEPT ![c] =
                                 [name |-> IF name = {} THEN @.name
                                           ELSE TheOne(name)]]
  /\ UNCHANGED <<posts, analyses, now, lastRecorded, last, batchVars, fq, wfcall>>

\* delete_category_endpoint on a category that exists (a missing one is a
\* 404 that changes nothing): the category goes, its posts with it, and
\* their analysis rows with them.
delete_category_endpoint(c) ==
  /\ CategoryFound(categories, c)
  /\ categories' = [d \in DOMAIN categories \ {c} |-> categories[d]]
  /\ posts' = WithoutCategory(posts, c)
  /\ analyses' = RowsOfPosts(analyses, DOMAIN WithoutCategory(posts, c))
  /\ lastRecorded' = [p \in PostIds |->
                        IF p \in DOMAIN posts /\ posts[p].category_id = c
                        THEN [k \in KindNames |-> NoRow]
                        ELSE lastRecorded[p]]
  /\ UNCHANGED <<now, last, batchVars, fq, reqs, wfcall>>

\* The foreign key post.category_id refuses a row whose category is missing.
ForeignKeyViolation(cats, c) == c \notin DOMAIN cats

\* create_post_endpoint up to create_post: "ensure category exists", the
\* get_category_by_id lookup and its 404.
create_post_endpoint_check(s, cat, title, content) ==
  /\ reqs[s].phase = "free"
  /\ LET r == [NoRequest EXCEPT !.op = "create_post", !.category_id = {cat},
                                !.title = {title}, !.content = {content},
                                !.category_seen = cat \in DOMAIN categories]
     IN reqs' = [reqs EXCEPT ![s] =
                   IF ~CategoryFound(categories, cat) THEN Answer(r, "404", FALSE)
                   ELSE [r EXCEPT !.phase = "checked"]]
  /\ UNCHANGED <<storeVars, last, batchVars, fq, wfcall>>

\* create_post_endpoint, the rest: create_post inserts the row, sets its
\* search vector and commits; the foreign key refuses a category that is gone
\* (IntegrityError, a 500).
create_post_endpoint_write(s) ==
  /\ reqs[s].phase = "checked" /\ reqs[s].op = "create_post"
  /\ LET cat == TheOne(reqs[s].category_id)
         p == NewPostId(s)
     IN IF ForeignKeyViolation(categories, cat)
        THEN /\ reqs' = [reqs EXCEPT ![s] = Answer(@, "500", FALSE)]
             /\ UNCHANGED posts
        ELSE /\ reqs' = [reqs EXCEPT ![s] = Answer([@ EXCEPT !.target = p],
                                                   "201", TRUE)]
             /\ posts' = [q \in DOMAIN posts \cup {p} |->
                            IF q = p
                            THEN NewPost(cat, TheOne(reqs[s].title),
                                         TheOne(reqs[s].content))
                            ELSE posts[q]]
  /\ UNCHANGED <<categories, analyses, now, lastRecorded, last, batchVars, fq, wfcall>>

\* update_post: if content or title is in update_data, the search vector is
\* set to to_tsvector of the values post.title and post.content of the
\* session's Post instance (bound into the statement as literals).
UpdatedSearchVector(post, title, content, r) ==
  IF r.content # {} \/ r.title # {} THEN ToTsvector(title, content)
  ELSE post.search_vector

\* update_post: the stored row once the request's statements are committed.
\* The flush writes the columns named in update_data and no other; the
\* instance's other attributes are the ones the session loaded at the
\* request's first lookup (a second select of a row the session already holds
\* does not overwrite them).
ApplyPostUpdate(post, r) ==
  LET cat == IF r.category_id = {} THEN post.category_id ELSE TheOne(r.category_id)
      title == IF r.title = {} THEN post.title ELSE TheOne(r.title)
      content == IF r.content = {} THEN post.content ELSE TheOne(r.content)
      ititle == IF r.title = {} THEN r.seen_title ELSE TheOne(r.title)
      icontent == IF r.content = {} THEN r.seen_content ELSE TheOne(r.content)
  IN [category_id |-> cat, title |-> title, content |-> content,
      search_vector |-> UpdatedSearchVector(post, ititle, icontent, r)]

\* update_post_endpoint up to update_post: the get_post_by_id dependency
\* (404), which loads the Post instance into the request's session, and,
\* when category_id is given, the get_category_by_id lookup (404).
update_post_endpoint_check(s, p, cat, title, content) ==
  /\ reqs[s].phase = "free"
  /\ LET r == [NoRequest EXCEPT !.op = "update_post", !.target = p,
                                !.category_id = cat, !.title = title,
                                !.content = content,
                                !.seen_title =
                                   IF p \in DOMAIN posts THEN posts[p].title
                                   ELSE None,
                                !.seen_content =
                                   IF p \in DOMAIN posts THEN posts[p].content
                                   ELSE None,
                                !.category_seen = cat \subseteq DOMAIN categories]
     IN reqs' = [reqs EXCEPT ![s] =
                   IF p \notin DOMAIN posts THEN Answer(r, "404", FALSE)
                   ELSE IF \E c \in cat : ~CategoryFound(categories, c)
                        THEN Answer(r, "404", FALSE)
                        ELSE [r EXCEPT !.phase = "checked"]]
  /\ UNCHANGED <<storeVars, last, batchVars, fq, wfcall>>

\* update_post_endpoint, the rest: update_post reads the row again (None:
\* 404), sets the fields, flushes (the foreign key refuses a category that is
\* gone), refreshes the search vector and commits.
update_post_endpoint_write(s) ==
  /\ reqs[s].phase = "checked" /\ reqs[s].op = "update_post"
  /\ LET p == reqs[s].target
     IN IF p \notin DOMAIN posts
        THEN /\ reqs' = [reqs EXCEPT ![s] = Answer(@, "404", FALSE)]
             /\ UNCHANGED posts
        ELSE IF \E c \in reqs[s].category_id : ForeignKeyViolation(categories, c)
        THEN /\ reqs' = [reqs EXCEPT ![s] = Answer(@, "500", FALSE)]
             /\ UNCHANGED posts
        ELSE /\ reqs' = [reqs EXCEPT ![s] = Answer(@, "200", TRUE)]
             /\ posts' = [posts EXCEPT ![p] = ApplyPostUpdate(@, reqs[s])]
  /\ UNCHANGED <<categories, analyses, now, lastRecorded, last, batchVars, fq, wfcall>>

\* ------------------------------------------------------ batch analysis
\* The analysis_types lists a POST /analyze request is drawn with.
KindLists ==
  {<<>>, <<"tags">>, <<"text_stats", "tags">>, <<"tags", "tags">>,
   <<"sentiment">>, <<"tags", "sentiment">>, <<"sentiment", "word_frequency">>}

\* The filters a POST /analyze request is drawn with.
BatchFilters ==
  {f \in FilterParams : f.offset <= 1 /\ f.category_id \in {{}, {1}}}

\* Mutant of InvalidKinds: the endpoint's validation loop is missing.
InvalidKinds_NotChecked(kinds) == <<>>

\* analyze_filtered_posts_endpoint, the validation loop: the entries of
\* analysis_types that are not valid types, in order; the first one is named
\* in the 400 response.
InvalidKinds(kinds) == SelectSeq(kinds, LAMBDA k : k \notin Kinds)

\* Mutant of EffectiveKinds: an empty list is taken as it is.
EffectiveKinds_NoDefault(kinds) == kinds

\* analyze_filtered_posts: an empty (or missing) list means the three kinds.
EffectiveKinds(kinds) == IF kinds = <<>> THEN DefaultAnalysisTypes ELSE kinds

\* Mutant of Saves: save_results is not looked at.
Saves_Always(persist, kinds) == KnownKinds(kinds) # <<>>

\* _analyze_post: "if save_results" inside the loop over the kinds, reached
\* for the known kinds only: whether a task awaits create_post_analysis.
Saves(persist, kinds) == persist /\ KnownKinds(kinds) # <<>>

\* Mutant of CanAcquire: the gate admits a task when no slot is free.
CanAcquire_Always(slots) == TRUE

\* asyncio.Semaphore.acquire: passes when a slot is free, waits otherwise.
CanAcquire(slots) == slots > 0

\* Mutant of Release: a task leaves the gate without giving its slot back.
Release_Leaked(slots) == slots

\* asyncio.Semaphore.release, the exit of "async with semaphore", taken on a
\* return and on an exception alike.
Release(slots) == slots + 1

\* The PostAnalysisResults get_post_analysis_result(post, run_if_missing=False)
\* may return for an existing post from bag b.
PossibleResults(b, p) ==
  {AssembleResult([word_frequency |-> wf, text_stats |-> ts, tags |-> tg]) :
     wf \in LatestOrNone(b, p, "word_frequency"),
     ts \in LatestOrNone(b, p, "text_stats"),
     tg \in LatestOrNone(b, p, "tags")}

\* The response lists the endpoint may build for the posts of page.
Responses(b, page) ==
  {r \in [1..Len(page) -> UNION {PossibleResults(b, page[i]) : i \in 1..Len(page)}] :
     \A i \in 1..Len(page) : r[i] \in PossibleResults(b, page[i])}

\* analyze_filtered_posts_endpoint up to the dispatch of the tasks: the
\* validation of analysis_types, then analyze_filtered_posts: the default
\* list, get_filtered_posts (which the store may fail), one process_post
\* task per post of the page behind a new semaphore.
analyze_filtered_posts_endpoint(kinds, persist, f) ==
  /\ batch.phase = "idle"
  /\ LET req == [NoBatch EXCEPT !.requested = kinds, !.persist = persist,
                   !.filters = f, !.before = analyses]
     IN IF InvalidKinds(kinds) # <<>>
        THEN /\ batch' = [req EXCEPT !.phase = "rejected",
                            !.cause = "validation",
                            !.detail = InvalidKinds(kinds)[1]]
             /\ UNCHANGED <<pc, sem>>
        ELSE \/ /\ batch' = [req EXCEPT !.phase = "failed", !.cause = "query",
                               !.kinds = EffectiveKinds(kinds),
                               !.queried = TRUE]
                /\ UNCHANGED <<pc, sem>>
             \/ \E page \in PageResults(posts, f) :
                  /\ batch' = [req EXCEPT !.phase = "dispatched",
                                 !.kinds = EffectiveKinds(kinds),
                                 !.queried = TRUE, !.page = page,
                                 !.total = get_posts_count(posts, f)]
                  /\ pc' = [p \in PostIds |->
                              IF \E i \in 1..Len(page) : page[i] = p
                              THEN "waiting" ELSE "none"]
                  /\ sem' = max_workers
  /\ UNCHANGED <<storeVars, last, max_workers, done_kinds, fq, reqs, wfcall>>

\* process_post: the task passes the semaphore and _analyze_post runs to its
\* first await.  With nothing to save (save_results false, or no known kind
\* in the list) it runs to its end without giving up control, and the slot is
\* back at once.
process_post_acquire(p) ==
  /\ pc[p] = "waiting"
  /\ CanAcquire(sem)
  /\ IF Saves(batch.persist, batch.kinds)
     THEN /\ pc' = [pc EXCEPT ![p] = "running"]
          /\ sem' = sem - 1
     ELSE /\ pc' = [pc EXCEPT ![p] = "done"]
          /\ sem' = sem
  /\ UNCHANGED <<storeVars, last, max_workers, batch, done_kinds, fq, reqs, wfcall>>

\* _analyze_post, one awaited create_post_analysis: the computed kind is
\* committed and the loop goes on; after the last one the task returns and
\* frees its slot.
analyze_post_save(p) ==
  /\ pc[p] = "running"
  /\ LET known == KnownKinds(batch.kinds)
         kind == known[done_kinds[p] + 1]
         after == PersistStep(analyses, p, posts[p].content, kind, now)
     IN /\ analyses' = after
        /\ lastRecorded' = [lastRecorded EXCEPT ![p][kind] =
                              NewRow(p, kind,
                                JsonDumps(AnalysisResult(kind, posts[p].content)),
                                now)]
        /\ done_kinds' = [done_kinds EXCEPT ![p] = @ + 1]
        /\ IF done_kinds[p] + 1 = Len(known)
           THEN /\ pc' = [pc EXCEPT ![p] = "done"]
                /\ sem' = Release(sem)
           ELSE UNCHANGED <<pc, sem>>
  /\ UNCHANGED <<categories, posts, now, last, max_workers, batch, fq, reqs, wfcall>>

\* _analyze_post, one awaited create_post_analysis that the store fails: the
\* exception leaves the task (the slot is freed on the way out) and, gather
\* being called without return_exceptions, is raised in
\* analyze_filtered_posts; the sibling tasks are not cancelled.
analyze_post_fail(p) ==
  /\ pc[p] = "running"
  /\ pc' = [pc EXCEPT ![p] = "failed"]
  /\ sem' = Release(sem)
  /\ batch' = IF batch.phase = "dispatched"
              THEN [batch EXCEPT !.phase = "failed", !.cause = "task"]
              ELSE batch
  /\ UNCHANGED <<storeVars, last, max_workers, done_kinds, fq, reqs, wfcall>>

\* Two tasks of the call are inside create_post_analysis on the one session
\* they share (an AsyncSession serves one operation at a time): the
\* operation of task p raises.  The row p had added is still pending in the
\* session, so a commit of the other task may store it, or it is dropped.
\* The exception leaves the task as in analyze_post_fail.
create_post_analysis_conflict(p) ==
  /\ pc[p] = "running"
  /\ \E q \in PostIds : q # p /\ pc[q] = "running"
  /\ pc' = [pc EXCEPT ![p] = "conflict"]
  /\ sem' = Release(sem)
  /\ batch' = IF batch.phase = "dispatched"
              THEN [batch EXCEPT !.phase = "failed", !.cause = "session"]
              ELSE batch
  /\ LET kind == KnownKinds(batch.kinds)[done_kinds[p] + 1]
         row == NewRow(p, kind,
                       JsonDumps(AnalysisResult(kind, posts[p].content)), now)
     IN \/ UNCHANGED <<analyses, lastRecorded>>
        \/ /\ analyses' = PersistStep(analyses, p, posts[p].content, kind, now)
           /\ lastRecorded' = [lastRecorded EXCEPT ![p][kind] = row]
  /\ UNCHANGED <<categories, posts, now, last, max_workers, done_kinds, fq, reqs, wfcall>>

\* gather returns the tasks' results in page order; the endpoint then reads
\* each post's result back with get_post_analysis_result(run_if_missing=False)
\* and answers.
gather_return ==
  /\ batch.phase = "dispatched"
  /\ \A i \in 1..Len(batch.page) : pc[batch.page[i]] = "done"
  /\ \E resp \in Responses(analyses, batch.page) :
       batch' = [batch EXCEPT
                   !.phase = "returned",
                   !.results = [i \in 1..Len(batch.page) |->
                                  AnalyzePostResult(batch.page[i],
                                    posts[batch.page[i]].content,
                                    KnownKinds(batch.kinds))],
                   !.metadata = [total_posts |-> batch.total,
                                 processed_posts |-> Len(batch.page),
                                 analysis_types |-> batch.kinds],
                   !.response = resp]
  /\ UNCHANGED <<storeVars, last, max_workers, pc, done_kinds, sem, fq, reqs, wfcall>>

\* ------------------------------------------------------ word frequency
\* A text as the tokens word_tokenize returns for it once it is lower-cased
\* and its punctuation blanked: words of letters (told apart by id), words
\* of the stopword lists, and tokens that are not all letters.
Word(i) == [kind |-> "word", id |-> i]
StopToken == [kind |-> "stop", id |-> 0]
NumToken == [kind |-> "num", id |-> 0]

\* str.isalpha, and membership in all_stopwords.
IsAlpha(tok) == tok.kind # "num"
InStopwords(tok) == tok.kind = "stop"

\* filtered_words: the tokens that are alphabetic and no stopword.
FilteredWords(tokens) ==
  SelectSeq(tokens, LAMBDA w : IsAlpha(w) /\ ~InStopwords(w))

\* Counter(filtered_words): word -> number of occurrences.
Counter(words) ==
  [w \in {words[i] : i \in DOMAIN words} |->
     Cardinality({i \in DOMAIN words : words[i] = w})]

\* Where a word occurs first: Counter keeps the words in this order.
FirstIndex(words, w) ==
  CHOOSE i \in DOMAIN words :
    words[i] = w /\ \A j \in DOMAIN words : words[j] = w => i <= j

\* The words of S by falling count, words of equal count in the order of
\* their first occurrence (the sort of most_common is stable).
RECURSIVE MostCommonOrder(_, _)
MostCommonOrder(words, S) ==
  IF S = {} THEN <<>>
  ELSE LET c == Counter(words)
           best == CHOOSE w \in S :
                     \A v \in S \ {w} :
                       \/ c[w] > c[v]
                       \/ c[w] = c[v] /\ FirstIndex(words, w) < FirstIndex(words, v)
       IN <<best>> \o MostCommonOrder(words, S \ {best})

\* Mutant of MostCommon: every word is returned, however many there are.
MostCommon_All(words, n) == MostCommonOrder(words, DOMAIN Counter(words))

\* word_counts.most_common(n).
MostCommon(words, n) ==
  LET o == MostCommonOrder(words, DOMAIN Counter(words))
  IN SubSeq(o, 1, Min(n, Len(o)))

\* The least e with c * 2^e >= t, for 0 < c <= t.
RECURSIVE Shift(_, _)
Shift(c, t) == IF c >= t THEN 0 ELSE 1 + Shift(2 * c, t)

\* (c * 2^k) mod t, by long division.
RECURSIVE Rem(_, _, _)
Rem(c, t, k) == IF k = 0 THEN c % t ELSE (2 * Rem(c, t, k - 1)) % t

\* count / total_words of two ints, 0 < c <= t: Python's true division, the
\* IEEE 754 double nearest to c / t (ties to even).  With k = 52 + Shift(c, t)
\* the quotient c * 2^k / t has 53 bits before the binary point and the
\* remainder r; the double is that quotient rounded to an integer, over 2^k.
\* It is written here as (c * 2^k + s) / (t * 2^k), s being t - r when the
\* quotient is rounded up and -r when it is rounded down.
TrueDiv(c, t) ==
  LET k == 52 + Shift(c, t)
      r == Rem(c, t, k)
      odd == (2 * Rem(c, t, k - 1)) \div t = 1
      up == 2 * r > t \/ (2 * r = t /\ odd)
  IN [count |-> c, total |-> t, k |-> k, s |-> IF up THEN t - r ELSE 0 - r]

\* The int 0 of "if total_words > 0 else 0".
ZeroFrequency == [count |-> 0, total |-> 1, k |-> 0, s |-> 0]

\* most_common's limit in _analyze_word_frequency.
TopWords == 20

\* _analyze_word_frequency on the tokens of a text.
AnalyzeWordFrequency(tokens) ==
  LET filtered_words == FilteredWords(tokens)
      word_counts == Counter(filtered_words)
      total_words == Len(filtered_words)
      top == MostCommon(filtered_words, TopWords)
  IN [total_unique_words |-> Cardinality(DOMAIN word_counts),
      total_words_after_filtering |-> total_words,
      word_frequencies |->
        [i \in 1..Len(top) |->
           [word |-> top[i], count |-> word_counts[top[i]],
            frequency |-> IF total_words > 0
                          THEN TrueDiv(word_counts[top[i]], total_words)
                          ELSE ZeroFrequency]]]

\* No result: the call has not been made.
NoWordFrequency == [total_unique_words |-> 0, total_words_after_filtering |-> 0,
                    word_frequencies |-> <<>>]

NoWords == [phase |-> "idle", text |-> <<>>, result |-> NoWordFrequency]

\* The call of _analyze_word_frequency on the text at hand.
analyze_word_frequency ==
  /\ wfcall.phase = "text"
  /\ wfcall' = [wfcall EXCEPT !.phase = "done",
                               !.result = AnalyzeWordFrequency(wfcall.text)]
  /\ UNCHANGED <<storeVars, last, batchVars, fq, reqs>>

\* ------------------------------------------------------- specification
InitPosts(ids) ==
  [p \in ids |-> NewPost(IF p = 1 THEN 1 ELSE 2, None,
                         IF p = 2 THEN "c2" ELSE "c1")]

CategoryNames == <<"News", "Technology", "Health", "Other">>

InitCategories == [c \in CategoryIds |-> [name |-> CategoryNames[c]]]

InitIdle ==
  /\ categories = InitCategories
  /\ lastRecorded = [p \in PostIds |-> [k \in KindNames |-> NoRow]]
  /\ last = NoCall
  /\ batch = NoBatch
  /\ pc = [p \in PostIds |-> "none"]
  /\ done_kinds = [p \in PostIds |-> 0]
  /\ sem = max_workers
  /\ fq = NoFilter
  /\ reqs = [s \in Slots |-> NoRequest]

\* The store API, one call at a time, on a store that holds post 1.
Init ==
  /\ posts = InitPosts({1})
  /\ analyses = EmptyBag
  /\ now = 0
  /\ max_workers = 1
  /\ InitIdle
  /\ wfcall = NoWords

Next ==
  \/ Tick
  \/ \E p \in PostIds, kind \in KindNames, c \in Contents :
       create_post_analysis(p, kind, JsonDumps(AnalysisResult(kind, c)))
  \/ \E p \in PostIds, run_if_missing \in BOOLEAN :
       get_post_analysis_result(p, run_if_missing)

Spec == Init /\ [][Next]_vars

\* One POST /analyze request on a store that holds every post, with no
\* analysis rows or with the rows an earlier analysis of post 1 left.
EarlierRows ==
  AnalyzePostStore(EmptyBag, 1, InitPosts(PostIds)[1].content,
                   DefaultAnalysisTypes, Len(DefaultAnalysisTypes), 0)

InitBatch ==
  /\ posts = InitPosts(PostIds)
  /\ analyses \in {EmptyBag, EarlierRows}
  /\ now = MaxClock
  /\ max_workers \in 1..MaxWorkersBound
  /\ InitIdle
  /\ wfcall = NoWords

NextBatch ==
  \/ \E kinds \in KindLists, persist \in BOOLEAN, f \in BatchFilters :
       analyze_filtered_posts_endpoint(kinds, persist, f)
  \/ \E p \in PostIds : process_post_acquire(p)
  \/ \E p \in PostIds : analyze_post_save(p)
  \/ \E p \in PostIds : analyze_post_fail(p)
  \/ \E p \in PostIds : create_post_analysis_conflict(p)
  \/ gather_return

SpecBatch == InitBatch /\ [][NextBatch]_vars

\* The same request under the event loop's scheduling: a task whose
\* semaphore wait can pass is resumed, an awaited create_post_analysis
\* completes (by committing or by raising), and gather's waiter is resumed
\* once every task is done.
FairBatch ==
  /\ \A p \in PostIds : WF_vars(process_post_acquire(p))
  /\ \A p \in PostIds :
       WF_vars(\/ analyze_post_save(p)
               \/ analyze_post_fail(p)
               \/ create_post_analysis_conflict(p))
  /\ WF_vars(gather_return)

SpecBatchFair == SpecBatch /\ FairBatch

\* One get_filtered_posts call, its two queries, with posts created and
\* deleted by other requests before it and between the two.
InitFilter ==
  /\ posts = InitPosts(PostIds)
  /\ analyses = EmptyBag
  /\ now = 0
  /\ max_workers = 1
  /\ InitIdle
  /\ wfcall = NoWords

NextFilter ==
  \/ \E f \in FilterParams : get_filtered_posts_count(f)
  \/ get_filtered_posts_page
  \/ \E p \in PostIds, cat \in CategoryIds : create_post(p, cat, "c1")
  \/ \E p \in PostIds : delete_post(p)

SpecFilter == InitFilter /\ [][NextFilter]_vars

\* Two get_filtered_posts calls with the same predicates, one after the
\* other, on a store that holds every post and that nothing writes to.
WideFilterParams ==
  [limit : 1..MaxLimit, offset : 0..MaxOffset,
   category_id : {{}} \cup {{c} : c \in CategoryIds},
   category_name : {{}, {CategoryNames[1]}},
   search_query : {None, "", "c1"}, use_fulltext : BOOLEAN]

InitPages ==
  /\ posts = InitPosts(PostIds)
  /\ analyses = EmptyBag
  /\ now = 0
  /\ max_workers = 1
  /\ InitIdle
  /\ wfcall = NoWords

NextPages ==
  \/ \E f \in WideFilterParams : get_filtered_posts_count(f)
  \/ get_filtered_posts_page
  \/ \E f \in WideFilterParams : get_filtered_posts_again(f)

SpecPages == InitPages /\ [][NextPages]_vars

\* The text of n different words followed by r more occurrences of the
\* first word, s stopwords and d tokens that are not words.
TextOf(n, r, s, d) ==
  [i \in 1..n |-> Word(i)] \o [i \in 1..r |-> Word(1)]
    \o [i \in 1..s |-> StopToken] \o [i \in 1..d |-> NumToken]

Texts ==
  {TextOf(n, r, s, d) : n \in 0..MaxWords, r \in 0..MaxRepeat, s \in 0..1, d \in 0..1}

\* _analyze_word_frequency applied to any of the texts.
InitWords ==
  /\ posts = InitPosts({1})
  /\ analyses = EmptyBag
  /\ now = 0
  /\ max_workers = 1
  /\ InitIdle
  /\ wfcall \in {[NoWords EXCEPT !.phase = "text", !.text = t] : t \in Texts}

NextWords == analyze_word_frequency

SpecWords == InitWords /\ [][NextWords]_vars

\* get_post_analysis_result calls on post 1 before and after requests that
\* update its content.
InitRevise ==
  /\ posts = InitPosts({1})
  /\ analyses = EmptyBag
  /\ now = 0
  /\ max_workers = 1
  /\ InitIdle
  /\ wfcall = NoWords

NextRevise ==
  \/ Tick
  \/ \E run_if_missing \in BOOLEAN : get_post_analysis_result(1, run_if_missing)
  \/ \E s \in Slots, title \in {{}, {"t1"}}, content \in {{}} \cup {{c} : c \in Contents} :
       update_post_endpoint_check(s, 1, {}, title, content)
  \/ \E s \in Slots : update_post_endpoint_write(s)

SpecRevise == InitRevise /\ [][NextRevise]_vars

\* The rows create_post_analysis calls of earlier requests can have left for
\* post 1: any kind, the analysis of any content, any reading of the clock.
RecordedRows ==
  {NewRow(1, k, JsonDumps(AnalysisResult(k, c)), t) :
     k \in Kinds, c \in Contents, t \in 0..MaxClock}

\* get_post_analysis_result called again and again on post 1, on a store
\* that holds up to MaxRows + 1 rows recorded before.
InitRepeat ==
  /\ posts = InitPosts({1})
  /\ analyses \in {SetToBag(S) : S \in {T \in SUBSET RecordedRows :
                                           Cardinality(T) <= MaxRows + 1}}
  /\ now = MaxClock
  /\ max_workers = 1
  /\ InitIdle
  /\ wfcall = NoWords

NextRepeat ==
  \E run_if_missing \in BOOLEAN : get_post_analysis_result(1, run_if_missing)

SpecRepeat == InitRepeat /\ [][NextRepeat]_vars

\* Two GET /posts requests, one after the other, on a store that holds more
\* posts than a page and that nothing writes to.
InitListing ==
  /\ posts = InitPosts(1..(NumPosts + 2))
  /\ analyses = EmptyBag
  /\ now = 0
  /\ max_workers = 1
  /\ InitIdle
  /\ wfcall = NoWords

NextListing ==
  \/ \E f \in FilterParams : get_filtered_posts_count(f)
  \/ get_posts_endpoint_respond
  \/ \E f \in FilterParams : get_filtered_posts_again(f)

SpecListing == InitListing /\ [][NextListing]_vars

\* get_filtered_posts calls with use_fulltext false and a search text, on
\* stores whose posts have any of a few titles and contents.
SearchTexts == {"c1", "C1", "c_", "1", "%"}

SearchFilters ==
  {f \in [limit : 1..MaxLimit, offset : 0..MaxOffset, category_id : {{}},
          category_name : {{}}, search_query : SearchTexts,
          use_fulltext : {FALSE}] : f.offset <= 1}

SearchPosts ==
  {NewPost(1, title, content) : title \in {None, "T1"}, content \in {"c1", "c2", "c_"}}

InitSearch ==
  /\ posts \in [PostIds -> SearchPosts]
  /\ analyses = EmptyBag
  /\ now = 0
  /\ max_workers = 1
  /\ InitIdle
  /\ wfcall = NoWords

NextSearch ==
  \/ \E f \in SearchFilters : get_filtered_posts_count(f)
  \/ get_filtered_posts_page

SpecSearch == InitSearch /\ [][NextSearch]_vars

\* The names category requests are drawn with: one in use, one new.
RequestNames == {CategoryNames[1], "Sport"}

\* Category requests, up to two of them interleaved at their awaits, and
\* category deletes, on a store that holds every category and post and the
\* analysis rows of post 1.
InitCategoryRequests ==
  /\ posts = InitPosts(PostIds)
  /\ analyses = EarlierRows
  /\ now = 0
  /\ max_workers = 1
  /\ InitIdle
  /\ wfcall = NoWords

NextCategories ==
  \/ \E s \in Slots, name \in RequestNames :
       create_category_endpoint_check(s, name)
  \/ \E s \in Slots : create_category_endpoint_write(s)
  \/ \E s \in Slots, c \in CategoryIds, name \in {{}} \cup {{n} : n \in RequestNames} :
       update_category_endpoint_check(s, c, name)
  \/ \E s \in Slots : update_category_endpoint_write(s)
  \/ \E c \in CategoryIds \cup {NewCategoryId(s) : s \in Slots} :
       delete_category_endpoint(c)

SpecCategories == InitCategoryRequests /\ [][NextCategories]_vars

\* The titles and the update_data post requests are drawn with.
Titles == {None, "t1"}
PostUpdates ==
  [category_id : {{}, {NumCategories}}, title : {{}, {"t1"}},
   content : {{}, {"c2"}}]

\* Post create and update requests, up to two of them interleaved at their
\* awaits, and category deletes, on a store that holds every category and
\* post.
InitPostRequests ==
  /\ posts = InitPosts(PostIds)
  /\ analyses = EmptyBag
  /\ now = 0
  /\ max_workers = 1
  /\ InitIdle
  /\ wfcall = NoWords

NextPosts ==
  \/ \E s \in Slots, cat \in CategoryIds, title \in Titles :
       create_post_endpoint_check(s, cat, title, "c1")
  \/ \E s \in Slots : create_post_endpoint_write(s)
  \/ \E s \in Slots, p \in PostIds, u \in PostUpdates :
       update_post_endpoint_check(s, p, u.category_id, u.title, u.content)
  \/ \E s \in Slots : update_post_endpoint_write(s)
  \/ \E c \in CategoryIds : delete_category_endpoint(c)

SpecPosts == InitPostRequests /\ [][NextPosts]_vars

\* ------------------------------------------------------------- claims
\* Number of missing kinds of post p in bag b.
NumMissing(b, p) == Cardinality({k \in Kinds : RowCount(b, p, k) = 0})

\* C4 (as claimed): record rejects a kind that is not one of the three, so
\* every stored analysis row has a recognised kind.
C4_StoredKindsRecognised ==
  \A r \in BagToSet(analyses) : r.analysis_type \in Kinds

\* C5 (as claimed): for every pair (post, kind) that has been recorded,
\* latest returns the row the most recent record call wrote, and no other.
C5_LatestIsMostRecent ==
  \A p \in PostIds, k \in Kinds :
    lastRecorded[p][k] # NoRow =>
      LatestOrNone(analyses, p, k) = {lastRecorded[p][k]}

\* C6: a successful get_post_analysis_result with run_if_missing on an
\* existing post adds exactly one row for each kind that had no row before
\* the call, none for a kind that had one, and no other row.
C6_ComputesExactlyMissing ==
  [][\A p \in DOMAIN posts :
       (/\ last'.op = "get_or_compute" /\ last'.status = "ok"
        /\ last'.post_id = p /\ last'.run_if_missing
        /\ get_post_analysis_result(p, TRUE))
       => /\ \A k \in Kinds :
               RowCount(analyses', p, k) =
                 RowCount(analyses, p, k)
                   + (IF RowCount(analyses, p, k) = 0 THEN 1 ELSE 0)
          /\ BagCardinality(analyses') =
               BagCardinality(analyses) + NumMissing(analyses, p)]_vars

\* C6 witness: a successful call that found some kinds present and wrote
\* some, but not all three.
C6_Witness ==
  /\ last.op = "get_or_compute" /\ last.run_if_missing /\ last.status = "ok"
  /\ Len(last.written) \in {1, 2}
  /\ \A k \in Kinds : RowCount(analyses, last.post_id, k) >= 1

\* C7: without run_if_missing, an existing post with no analysis row gets a
\* result (not None) whose three fields are absent; a post id that does not
\* exist gets not-found, whatever run_if_missing is.
C7_EmptyResultOrNotFound ==
  last.op = "get_or_compute" =>
    /\ last.post_id \notin DOMAIN posts => last.status = "not_found"
    /\ (/\ last.post_id \in DOMAIN posts
        /\ ~last.run_if_missing
        /\ PostRowCount(analyses, last.post_id) = 0)
       => /\ last.status = "ok"
          /\ last.result.word_frequencies = Absent
          /\ last.result.text_stats = Absent
          /\ last.result.extracted_tags = Absent

\* C7 witness: the call on an existing post with no rows has returned.
C7_Witness ==
  /\ last.op = "get_or_compute" /\ ~last.run_if_missing
  /\ last.post_id \in DOMAIN posts
  /\ PostRowCount(analyses, last.post_id) = 0
  /\ last.status = "ok"

\* C9 (as claimed): a get_post_analysis_result with run_if_missing that
\* fails leaves the store as it was before the call.
C9_NoPartialPersistence ==
  [][\A p \in DOMAIN posts :
       (/\ last'.op = "get_or_compute" /\ last'.status = "error"
        /\ last'.post_id = p
        /\ get_post_analysis_result(p, TRUE))
       => analyses' = analyses]_vars

\* The posts whose _analyze_post is in progress, holding a slot.
Running == {p \in PostIds : pc[p] = "running"}

\* The posts of the page of the batch request.
PagePosts == {batch.page[i] : i \in 1..Len(batch.page)}

\* How many entries of the list kinds are k.
Occurrences(kinds, k) == Cardinality({i \in 1..Len(kinds) : kinds[i] = k})

\* C1: the posts whose _analyze_post is in progress never outnumber
\* max_workers; each holds one slot of the semaphore, so a waiting post is
\* admitted only when a slot is free.
C1_AtMostMaxWorkers ==
  /\ Cardinality(Running) <= max_workers
  /\ sem + Cardinality(Running) = max_workers

\* C1 witness: every slot is taken and another post of the page waits.
C1_Witness ==
  /\ Cardinality(Running) = max_workers
  /\ \E p \in PostIds : pc[p] = "waiting"

\* C2 (as claimed): the batch call fails as a whole only when the initial
\* filtered query fails; a failing post does not make the call fail.
C2_FailureIsolatedPerPost ==
  batch.phase = "failed" => batch.cause = "query"

\* C3: a request whose kinds list holds a name that is not one of the three
\* kinds is rejected naming an invalid kind of the list, before the filtered
\* query runs, before any task exists and with no analysis row written.
C3_UnknownKindRejectedFirst ==
  (batch.phase # "idle"
     /\ \E i \in 1..Len(batch.requested) : batch.requested[i] \notin Kinds)
  => /\ batch.phase = "rejected"
     /\ batch.detail \notin Kinds
     /\ \E i \in 1..Len(batch.requested) : batch.requested[i] = batch.detail
     /\ ~batch.queried
     /\ \A p \in PostIds : pc[p] = "none" /\ done_kinds[p] = 0
     /\ analyses = batch.before

\* C3 witness: a list with a valid and an invalid name has been rejected.
C3_Witness ==
  /\ batch.phase = "rejected"
  /\ \E i, j \in 1..Len(batch.requested) :
       batch.requested[i] \in Kinds /\ batch.requested[j] \notin Kinds

\* C8: after a successful batch call with persist, every post of the page
\* has one new row per entry of the kinds list, whatever rows the pair had
\* before, no other pair has a new row, and the table has grown by
\* |page| x |kinds|.
C8_ForcedRecompute ==
  (batch.phase = "returned" /\ batch.persist)
  => /\ \A p \in PostIds, k \in KindNames :
          RowCount(analyses, p, k) =
            RowCount(batch.before, p, k)
              + (IF p \in PagePosts THEN Occurrences(batch.kinds, k) ELSE 0)
     /\ BagCardinality(analyses) =
          BagCardinality(batch.before) + Len(batch.page) * Len(batch.kinds)

\* C8 witness: a successful persisting call over two or more posts, one of
\* which already had a row of a requested kind.
C8_Witness ==
  /\ batch.phase = "returned" /\ batch.persist
  /\ Len(batch.page) >= 2
  /\ \E p \in PagePosts, i \in 1..Len(batch.kinds) :
       RowCount(batch.before, p, batch.kinds[i]) >= 1

\* C10 (as claimed): every result (page, total) of get_filtered_posts has
\* offset + len(page) <= total and len(page) <= limit.
C10_PageWithinTotal ==
  fq.phase = "done" =>
    /\ fq.filters.offset + Len(fq.page) <= fq.total
    /\ Len(fq.page) <= fq.filters.limit

\* C10 (amended): len(page) <= limit and len(page) = min(limit,
\* max(0, n - offset)), n the number of matching posts when the page query
\* runs; total is that number when the count query runs, so with no write
\* between the two queries n = total, and then offset + len(page) <= total
\* whenever offset <= total.
C10_PageSize ==
  fq.phase = "done" =>
    LET n == get_posts_count(posts, fq.filters)
    IN /\ Len(fq.page) <= fq.filters.limit
       /\ Len(fq.page) =
            Min(fq.filters.limit,
                IF n >= fq.filters.offset THEN n - fq.filters.offset ELSE 0)
       /\ fq.quiet => fq.total = n
       /\ (fq.quiet /\ fq.filters.offset <= fq.total) =>
            fq.filters.offset + Len(fq.page) <= fq.total

\* C10 witness: an undisturbed call with a positive offset returned a full
\* page that ends below the total.
C10_Witness ==
  /\ fq.phase = "done" /\ fq.quiet
  /\ fq.filters.offset >= 1
  /\ Len(fq.page) = fq.filters.limit
  /\ fq.filters.offset + Len(fq.page) <= fq.total

\* The ids of the posts of a page.
PageIds(page) == {page[i] : i \in 1..Len(page)}

\* C11 (as claimed): on an unchanged store and with the same predicates, the
\* page at offset 0, limit N and the page at offset N, limit N hold disjoint
\* sets of post ids whenever total > N.
C11_PagesDisjoint ==
  (/\ fq.phase = "done" /\ fq.prev.taken
   /\ fq.prev.filters.offset = 0
   /\ fq.filters.limit = fq.prev.filters.limit
   /\ fq.filters.offset = fq.prev.filters.limit
   /\ fq.total > fq.filters.limit)
  => PageIds(fq.page) \cap PageIds(fq.prev.page) = {}

\* C12: the total of get_filtered_posts is the number of stored posts that
\* satisfy the predicates, whatever offset and limit are: two calls on an
\* unchanged store with the same predicates return the same total.
C12_TotalIgnoresPagination ==
  fq.phase \in {"counted", "done"} =>
    /\ fq.total = Cardinality({p \in DOMAIN posts : Matches(posts[p], fq.filters)})
    /\ fq.prev.taken => fq.prev.total = fq.total

\* C12 witness: two calls with different offsets and limits returned, the
\* second page shorter than the total.
C12_Witness ==
  /\ fq.phase = "done" /\ fq.prev.taken
  /\ fq.filters.offset # fq.prev.filters.offset
  /\ fq.filters.limit # fq.prev.filters.limit
  /\ fq.total >= 2
  /\ Len(fq.page) < fq.total

\* The stored posts that satisfy every active predicate of the filters f: the
\* category id, the name of the post's category, and the search text found
\* in the title or the content (None and "" being no search).
Satisfying(f) ==
  {p \in DOMAIN posts :
     /\ f.category_id # {} => posts[p].category_id \in f.category_id
     /\ f.category_name # {} =>
          categories[posts[p].category_id].name \in f.category_name
     /\ f.search_query \notin {None, ""} =>
          f.search_query \in {posts[p].title, posts[p].content}}

\* C13: every post of the page satisfies all active predicates together, an
\* empty search_query being no predicate; the page leaves out no satisfying
\* post that its window has room for.
C13_PageSatisfiesAllPredicates ==
  fq.phase = "done" =>
    /\ PageIds(fq.page) \subseteq Satisfying(fq.filters)
    /\ Len(fq.page) =
         Min(fq.filters.limit,
             IF Cardinality(Satisfying(fq.filters)) >= fq.filters.offset
             THEN Cardinality(Satisfying(fq.filters)) - fq.filters.offset
             ELSE 0)

\* C13 witness: a page with a post, fetched with category_id, category_name
\* and search_query all set, while another stored post fails a predicate.
C13_Witness ==
  /\ fq.phase = "done"
  /\ fq.filters.category_id # {} /\ fq.filters.category_name # {}
  /\ fq.filters.search_query \notin {None, ""}
  /\ Len(fq.page) >= 1
  /\ Satisfying(fq.filters) # DOMAIN posts

\* C16 (as claimed): no two stored categories have the same name, and no
\* category create or update request ends in anything but success, the 400
\* for a name in use, or the 404 for a missing category.
C16_DuplicateNameGets400 ==
  /\ \A c, d \in DOMAIN categories :
       categories[c].name = categories[d].name => c = d
  /\ \A s \in Slots :
       reqs[s].op \in {"create_category", "update_category"}
         => reqs[s].status \in {"none", "201", "200", "400", "404"}

\* No post without its category and no analysis row without its post.
NoOrphans ==
  /\ \A p \in DOMAIN posts : posts[p].category_id \in DOMAIN categories
  /\ \A r \in BagToSet(analyses) : r.post_id \in DOMAIN posts

\* C17: a step that deletes an existing category c removes exactly the posts
\* of c and exactly the analysis rows of those posts, every other post and
\* row staying as it was; and in every reachable state there is no post
\* without its category and no analysis row without its post.
C17_DeleteCategoryCascades ==
  /\ []NoOrphans
  /\ [][\A c \in DOMAIN categories :
          c \notin DOMAIN categories'
          => /\ DOMAIN posts' = {p \in DOMAIN posts : posts[p].category_id # c}
             /\ \A p \in DOMAIN posts' : posts'[p] = posts[p]
             /\ BagToSet(analyses') \subseteq BagToSet(analyses)
             /\ \A r \in BagToSet(analyses) :
                  CopiesIn(r, analyses') =
                    IF r.post_id \in DOMAIN posts' THEN CopiesIn(r, analyses)
                    ELSE 0]_vars

\* C17 witness: category 1 has been deleted with post 1 and its analysis
\* rows, while another category still has its post.
C17_Witness ==
  /\ 1 \notin DOMAIN categories
  /\ 1 \notin DOMAIN posts
  /\ analyses = EmptyBag
  /\ \E p \in DOMAIN posts : posts[p].category_id \in DOMAIN categories

\* The words of the model's texts.
Words == {"c1", "c2", "t1"}

\* C14 (as claimed): every stored post's search vector is the one derived
\* from its current title and content, so a full-text query finds a post
\* exactly when the word is its current title or content.
C14_SearchVectorCurrent ==
  \A p \in DOMAIN posts :
    /\ posts[p].search_vector =
         {<<"lex", w>> : w \in {posts[p].title, posts[p].content} \ {None, ""}}
    /\ \A w \in Words :
         Matches(posts[p], [NoFilters EXCEPT !.search_query = w])
           <=> w \in {posts[p].title, posts[p].content}

FieldOf(result, k) ==
  CASE k = "word_frequency" -> result.word_frequencies
    [] k = "text_stats" -> result.text_stats
    [] OTHER -> result.extracted_tags

\* The decoded payloads of the rows of (p, k) with the greatest created_at.
NewestPayloads(p, k) ==
  {r.result[2] : r \in {x \in RowsOf(analyses, p, k) :
                           \A q \in RowsOf(analyses, p, k) :
                              q.created_at <= x.created_at}}

\* C18: in the result get_post_analysis_result assembles, the field of a
\* kind is present exactly when the post has a row of that kind, and the raw
\* map has exactly those kinds as keys, each with the decoded payload of a
\* row of that kind with the greatest created_at.
C18_FieldsFollowLatestRows ==
  (last.op = "get_or_compute" /\ last.status = "ok") =>
    /\ DOMAIN last.result.raw_analysis =
         {k \in Kinds : RowsOf(analyses, last.post_id, k) # {}}
    /\ \A k \in Kinds :
         /\ FieldOf(last.result, k) # Absent
              <=> RowsOf(analyses, last.post_id, k) # {}
         /\ k \in DOMAIN last.result.raw_analysis =>
              /\ last.result.raw_analysis[k] \in NewestPayloads(last.post_id, k)
              /\ FieldOf(last.result, k) = last.result.raw_analysis[k]

\* C18 witness: a result assembled for a post that has an older and a newer
\* row with different payloads for one kind and no row for another kind.
C18_Witness ==
  /\ last.op = "get_or_compute" /\ last.status = "ok"
  /\ \E k \in Kinds : RowsOf(analyses, last.post_id, k) = {}
  /\ \E k \in Kinds :
       \E r, q \in RowsOf(analyses, last.post_id, k) :
         r.created_at < q.created_at /\ r.result # q.result

\* The list of kinds a request for the list kinds is a request for.
RequestedKinds(kinds) ==
  IF kinds = <<>> THEN <<"word_frequency", "text_stats", "tags">> ELSE kinds

\* C19: a successful analyze_filtered_posts returns one entry per post of
\* the filtered page, in page order, each with that post's id and an
\* analyses map whose keys are exactly the requested kinds (the three kinds
\* for an empty list), each with the result computed from that post's
\* content; the metadata has the filtered total, the page length and the
\* list of kinds.
C19_OneResultPerPagePost ==
  batch.phase = "returned" =>
    /\ Len(batch.results) = Len(batch.page)
    /\ PageIds(batch.page) \subseteq Satisfying(batch.filters)
    /\ Cardinality(PageIds(batch.page)) = Len(batch.page)
    /\ \A i \in 1..Len(batch.page) :
         /\ batch.results[i].post_id = batch.page[i]
         /\ DOMAIN batch.results[i].analyses =
              {RequestedKinds(batch.requested)[j] :
                 j \in 1..Len(RequestedKinds(batch.requested))}
         /\ \A k \in DOMAIN batch.results[i].analyses :
              batch.results[i].analyses[k] =
                [kind |-> k, of |-> posts[batch.page[i]].content]
    /\ batch.metadata.total_posts = Cardinality(Satisfying(batch.filters))
    /\ batch.metadata.processed_posts = Len(batch.page)
    /\ batch.metadata.analysis_types = RequestedKinds(batch.requested)

\* C19 witness: a call for two kinds has returned a page shorter than the
\* filtered total.
C19_Witness ==
  /\ batch.phase = "returned"
  /\ Len(batch.requested) = 2 /\ batch.requested[1] # batch.requested[2]
  /\ Len(batch.page) >= 1
  /\ batch.metadata.total_posts > Len(batch.page)

\* C20 (as claimed): whatever the interleaving of the tasks of a persisting
\* call, once they have all ended, none of them by a failure of the store,
\* every (post of the page, requested kind) has exactly one new row per
\* entry of the kinds list and no other row is new or lost.
C20_ConcurrentAppendsIndependent ==
  (/\ batch.persist
   /\ batch.phase \in {"returned", "failed"}
   /\ batch.queried
   /\ \A p \in PagePosts : pc[p] \in {"done", "conflict"})
  => \A p \in PostIds, k \in KindNames :
       RowCount(analyses, p, k) =
         RowCount(batch.before, p, k)
           + (IF p \in PagePosts THEN Occurrences(batch.kinds, k) ELSE 0)

\* C21: a successful create_post_analysis adds exactly one row, the one with
\* the given post id, kind and payload and the clock's reading, and every
\* row stored before it is still stored, as often as before and with its
\* post id, kind, payload and created_at; no step of the store API or of
\* get_post_analysis_result changes or removes a stored row.
C21_RecordAppendOnly ==
  [][/\ \A r \in BagToSet(analyses) : CopiesIn(r, analyses') >= CopiesIn(r, analyses)
     /\ \A p \in DOMAIN posts, kind \in KindNames, c \in Contents :
          LET payload == <<"json", [kind |-> kind, of |-> c]>>
              row == [post_id |-> p, analysis_type |-> kind, result |-> payload,
                      created_at |-> now]
          IN create_post_analysis(p, kind, payload)
             => /\ BagCardinality(analyses') = BagCardinality(analyses) + 1
                /\ CopiesIn(row, analyses') = CopiesIn(row, analyses) + 1]_vars

\* C21 witness: a record call has succeeded on a pair that already had a row
\* with another payload and another created_at, and both rows are stored.
C21_Witness ==
  /\ last.op = "record" /\ last.status = "ok"
  /\ \E p \in PostIds, k \in Kinds :
       \E r, q \in RowsOf(analyses, p, k) :
         r.created_at < q.created_at /\ r.result # q.result

\* The sequence q occurs in the sequence chars as a run of consecutive
\* characters.
Contains(chars, q) ==
  \E i \in 0..(Len(chars) - Len(q)) :
    \A j \in 1..Len(q) : chars[i + j] = q[j]

\* The text holds q as a literal substring, case disregarded.
HasSubstring(text, q) ==
  text # None /\ Contains(Lower(Chars(text)), Lower(Chars(q)))

\* C22 (as claimed): with use_fulltext false and a non-empty search_query,
\* every post of the page holds search_query, character for character and
\* case disregarded, in its content or its title, also when search_query
\* holds % or _.
C22_LiteralSubstring ==
  (fq.phase = "done" /\ ~fq.filters.use_fulltext
     /\ fq.filters.search_query \notin {None, ""})
  => \A p \in PageIds(fq.page) :
       \/ HasSubstring(posts[p].content, fq.filters.search_query)
       \/ HasSubstring(posts[p].title, fq.filters.search_query)

\* C23: in the response of the listing endpoint next_offset is present
\* exactly when offset + limit is less than the number of posts that satisfy
\* the filters, and is then offset + limit; a request at that next_offset
\* with the same limit is answered with prev_offset equal to the offset of
\* the first request.
C23_NextOffsetThenPrevOffset ==
  (fq.phase = "done" /\ fq.response # NoResponse) =>
    LET f == fq.filters
    IN /\ fq.response.next_offset # {}
            <=> f.offset + f.limit < Cardinality(Satisfying(f))
       /\ fq.response.next_offset \subseteq {f.offset + f.limit}
       /\ (/\ fq.prev.taken
           /\ fq.prev.response.next_offset = {f.offset}
           /\ fq.prev.filters.limit = f.limit)
          => fq.response.prev_offset = {fq.prev.filters.offset}

\* C23 witness: the request at the next_offset of a first response has been
\* answered, the first request's offset being positive and no multiple of
\* its limit.
C23_Witness ==
  /\ fq.phase = "done" /\ fq.prev.taken
  /\ fq.prev.response.next_offset = {fq.filters.offset}
  /\ fq.prev.filters.limit = fq.filters.limit
  /\ fq.prev.filters.offset > 0
  /\ fq.prev.filters.offset % fq.filters.limit # 0
  /\ fq.response.prev_offset = {fq.prev.filters.offset}

\* C30 (as claimed): prev_offset is absent when offset is 0 and, when
\* present, is an offset the endpoint accepts (>= 0), for every limit and
\* offset, an offset that is no multiple of limit included.
C30_PrevOffsetValid ==
  (fq.phase = "done" /\ fq.response # NoResponse) =>
    /\ fq.filters.offset = 0 => fq.response.prev_offset = {}
    /\ \A o \in fq.response.prev_offset : o >= 0

\* Sum of f[i] over i in 1..n.
RECURSIVE SumTo(_, _)
SumTo(f, n) == IF n = 0 THEN 0 ELSE f[n] + SumTo(f, n - 1)

\* The double d = (count * 2^k + s) / (total * 2^k) lies in [0, 1]; |s| is at
\* most total / 2, far below 2^k, so the sign of s decides only when count is
\* 0 or total.
InUnitInterval(d) ==
  /\ d.count >= 0 /\ (d.count = 0 => d.s >= 0)
  /\ d.count <= d.total /\ (d.count = d.total => d.s <= 0)

\* The doubles of the entries es, all over the same total, sum to at most 1
\* as real numbers.  With K the greatest k, the sum times total * 2^K is
\* 2^K * (sum of the counts) + (sum of s * 2^(K - k)), whose second part is
\* far below 2^K: it decides only when the counts sum to the total.
SumAtMostOne(es, total) ==
  LET n == Len(es)
      counts == SumTo([i \in 1..n |-> es[i].count], n)
      K == CHOOSE k \in {es[i].frequency.k : i \in 1..n} :
             \A i \in 1..n : es[i].frequency.k <= k
      excess == SumTo([i \in 1..n |->
                         es[i].frequency.s * 2^(K - es[i].frequency.k)], n)
  IN n = 0 \/ counts < total \/ (counts = total /\ excess <= 0)

\* What C24 says of the result apart from the sum of the frequencies: at
\* most 20 entries, each with the count of its word among the filtered words
\* and with its frequency a multiple of 2^-k at most half a step from
\* count / total (the double nearest to it), in [0, 1];
\* total_unique_words at least the number of entries; no entry when no word
\* is left after filtering.
WordFrequencyShape ==
  LET r == wfcall.result
      es == r.word_frequencies
      kept == {i \in 1..Len(wfcall.text) : wfcall.text[i].kind = "word"}
  IN /\ Len(es) <= 20
     /\ r.total_words_after_filtering = Cardinality(kept)
     /\ \A i \in 1..Len(es) :
          LET d == es[i].frequency
          IN /\ es[i].count =
                  Cardinality({j \in kept : wfcall.text[j] = es[i].word})
             /\ d.count = es[i].count
             /\ d.total = r.total_words_after_filtering
             /\ 2 * d.s <= d.total /\ 0 - 2 * d.s <= d.total
             /\ (Rem(d.count, d.total, d.k) + d.s) % d.total = 0
             /\ InUnitInterval(d)
     /\ r.total_unique_words >= Len(es)
     /\ kept = {} => es = <<>>

\* C24 (as claimed): for every text the result has at most 20 entries, each
\* frequency is count / total_words_after_filtering and lies in [0, 1], the
\* frequencies of the entries sum to at most 1, total_unique_words is at
\* least the number of entries, and with no filtered word the list is empty.
C24_FrequenciesSumToOne ==
  wfcall.phase = "done" =>
    /\ WordFrequencyShape
    /\ SumAtMostOne(wfcall.result.word_frequencies,
                    wfcall.result.total_words_after_filtering)

\* C24 (amended): as claimed, but of the sum only this: the counts of the
\* entries sum to at most total_words_after_filtering, so the exact ratios
\* sum to at most 1; each frequency is that ratio rounded to a double, off by
\* at most 2^-54, so the doubles sum to at most 1 + 20 * 2^-54.
C24_FrequenciesRounded ==
  wfcall.phase = "done" =>
    LET es == wfcall.result.word_frequencies
    IN /\ WordFrequencyShape
       /\ SumTo([i \in 1..Len(es) |-> es[i].count], Len(es))
            <= wfcall.result.total_words_after_filtering
       /\ \A i \in 1..Len(es) :
            es[i].frequency.s = 0 \/ es[i].frequency.k >= 53

\* C24 witness: a text with more than 20 different words, one of them
\* repeated, a stopword and a token that is no word: 20 entries come back.
C24_Witness ==
  /\ wfcall.phase = "done"
  /\ wfcall.result.total_unique_words > 20
  /\ Len(wfcall.result.word_frequencies) = 20
  /\ wfcall.result.word_frequencies[1].count >= 2
  /\ Len(wfcall.text) > wfcall.result.total_words_after_filtering + 1

\* C25 (as claimed): a successful get_post_analysis_result with
\* run_if_missing that follows a successful one, whatever update_post did to
\* the post in between, returns for each of the three kinds the result
\* computed from the content the post has at the call.
C25_ResultsFollowContent ==
  [][(/\ 1 \in DOMAIN posts
      /\ last.op = "get_or_compute" /\ last.status = "ok"
      /\ get_post_analysis_result(1, TRUE)
      /\ last'.op = "get_or_compute" /\ last'.status = "ok"
      /\ last'.run_if_missing)
     => \A k \in Kinds :
          FieldOf(last'.result, k) = [kind |-> k, of |-> posts[1].content]]_vars

\* C26 (as claimed): once a get_post_analysis_result with run_if_missing has
\* succeeded on a post, every kind of the post has a row, and the next such
\* call on the post, no write having come in between, adds no analysis row
\* and returns the result the first call returned.
C26_SecondCallIdempotent ==
  [][\A p \in DOMAIN posts :
       (/\ last.op = "get_or_compute" /\ last.status = "ok"
        /\ last.run_if_missing /\ last.post_id = p
        /\ get_post_analysis_result(p, TRUE))
       => /\ \A k \in Kinds : RowCount(analyses, p, k) >= 1
          /\ analyses' = analyses
          /\ last'.status = "ok"
          /\ last'.result = last.result]_vars

\* C27: a get_post_analysis_result call without run_if_missing, on a post
\* id that exists or not and whatever rows are stored, leaves the posts, the
\* categories and the analysis rows as they were.
C27_ReadOnlyWithoutRunIfMissing ==
  [][\A p \in PostIds :
       get_post_analysis_result(p, FALSE)
       => /\ posts' = posts
          /\ categories' = categories
          /\ analyses' = analyses]_vars

\* C27 witness: such a call has returned for a post that has a row of one
\* kind and none of another.
C27_Witness ==
  /\ last.op = "get_or_compute" /\ ~last.run_if_missing /\ last.status = "ok"
  /\ \E k \in Kinds : RowCount(analyses, last.post_id, k) >= 1
  /\ \E k \in Kinds : RowCount(analyses, last.post_id, k) = 0
  /\ DOMAIN last.result.raw_analysis # {}

\* C28: an analyze_filtered_posts call with save_results false leaves the
\* stored analysis rows as they were before it, whatever page and kinds it
\* is given, and what it returns still holds, for every post of the page in
\* order, the result of each known kind computed from the post's content.
C28_NoPersistWritesNothing ==
  (batch.phase # "idle" /\ ~batch.persist)
  => /\ analyses = batch.before
     /\ batch.phase = "returned"
        => /\ Len(batch.results) = Len(batch.page)
           /\ \A i \in 1..Len(batch.page) :
                /\ batch.results[i].post_id = batch.page[i]
                /\ DOMAIN batch.results[i].analyses
                     = {k \in Kinds : \E j \in 1..Len(batch.kinds) :
                                        batch.kinds[j] = k}
                /\ \A k \in DOMAIN batch.results[i].analyses :
                     batch.results[i].analyses[k]
                       = AnalysisResult(k, posts[batch.page[i]].content)

\* C28 witness: a call without save_results has returned the computed kinds
\* of a page of two posts or more, on a store that held rows before it.
C28_Witness ==
  /\ batch.phase = "returned" /\ ~batch.persist
  /\ Len(batch.page) >= 2
  /\ batch.before # EmptyBag /\ analyses = batch.before
  /\ \A i \in 1..Len(batch.page) : DOMAIN batch.results[i].analyses # {}

\* C29: once analyze_filtered_posts has dispatched its tasks, for any page
\* and any max_workers >= 1, the call returns or raises, no task is left
\* waiting at the gate or running, and every slot of the gate is free again,
\* also when a task failed while it held a slot.
C29_TerminatesGateReleased ==
  (batch.phase = "dispatched")
  ~> (/\ batch.phase \in {"returned", "failed"}
      /\ \A p \in PostIds : pc[p] \notin {"waiting", "running"}
      /\ sem = max_workers)

\* C29 witness: with one slot for a page of two posts, one task failed
\* holding the slot and the other was admitted after it and saved its kinds;
\* the call has raised and the slot is free.
C29_Witness ==
  /\ batch.phase = "failed" /\ batch.cause = "task"
  /\ max_workers = 1 /\ Len(batch.page) >= 2
  /\ \E p \in PostIds : pc[p] = "failed"
  /\ \E q \in PostIds : pc[q] = "done" /\ done_kinds[q] >= 1
  /\ \A p \in PostIds : pc[p] \notin {"waiting", "running"}
  /\ sem = max_workers

====
